---- MODULE Spec2Model ----
(***************************************************************************)
(* A model of psycopg/waiting.py: the wait functions that drive a          *)
(* generator (the resumable operation) by waiting for its descriptor to    *)
(* become ready, and the module-level choice of the default wait function. *)
(*                                                                         *)
(* Wait and Ready values are bitsets over {R, W}; they are modelled as     *)
(* sets of bit names, `&` as intersection and `|` as union.  epoll event   *)
(* masks are sets of flag names in the same way.  An optional value        *)
(* (Python None or a value) is a sequence of length 0 or 1.                *)
(*                                                                         *)
(* One call is followed in full (Spec, SpecSel); time is counted in ticks  *)
(* while a connection-phase engine waits with a timeout.  Concurrent calls *)
(* of the cooperative engines in one event loop are followed in SpecLoop.  *)
(***************************************************************************)
EXTENDS Integers, Sequences, FiniteSets, TLC

VARIABLES
    \* ---- the process environment and the module's globals ----
    environ,          \* os.environ.get("PSYCOPG_WAIT_FUNC"): <<>> or <<name>>
    psycopg_c,        \* _psycopg is available (truthy)
    platform,         \* sys.platform
    DefaultSelector,  \* selectors.DefaultSelector
    modState,         \* "loading" | "loaded" | "ImportError"
    wait,             \* the module global `wait`: a function name or Unbound
    \* ---- one call of a wait function ----
    pc,               \* "idle" | "next" | "poll" | "send" | "returned" | "raised" | "opaque"
    engine,           \* the function running
    timeout,          \* local `timeout`: <<>> (None) or <<t>>
    fileno,           \* local `fileno`
    s,                \* local `s`: the Wait mask most recently yielded
    ready,            \* local `ready`
    rlist,            \* local `rlist` (wait_selector, wait_conn): <<>> or <<list>>
    selres,           \* locals rl, wl, xl (wait_select): <<>> or <<[rl, wl, xl]>>
    fileevs,          \* local `fileevs` (wait_epoll): <<>> or <<list>>
    evSet,            \* the flag of the asyncio Event `ev`
    rv,               \* the value returned to the caller
    exc,              \* the exception that reached the caller
    selReg,           \* registrations of the call's DefaultSelector: {<<fd, events>>}
    epReg,            \* registrations of the call's epoll object: {<<fd, evmask, armed>>}
    loopReaders,      \* event loop: descriptors with a reader callback
    loopWriters,      \* event loop: descriptors with a writer callback
    \* ---- the operation (generator) and bookkeeping of what happened ----
    opOut,            \* the generator's latest outcome
    resumes,          \* number of gen.send() calls made
    sent,             \* the latest gen.send(): <<>> or <<[fd, mask, ready]>>
    nmodify,          \* number of epoll.modify() calls made
    cyc,              \* what the engine did since the latest request
    fired,            \* the callbacks the event loop called in the current wait
    \* ---- time, in ticks ----
    clock,            \* the timer of the pending select() or wait_for()
    waited,           \* time passed since the current wait started
    elapsed,          \* time the call has spent waiting, all waits together
    \* ---- coroutines running wait_async or wait_conn_async in one event loop ----
    tasks,            \* per task: its position and its locals fileno, s, ready, ev
    readers,          \* the loop's reader callbacks: {<<fd, task whose wakeup it is>>}
    writers           \* the loop's writer callbacks, likewise

modVars == <<environ, psycopg_c, platform, DefaultSelector, modState, wait>>
callVars == <<pc, engine, timeout, fileno, s, ready, rlist, selres, fileevs, evSet,
              rv, exc, selReg, epReg, loopReaders, loopWriters,
              opOut, resumes, sent, nmodify, cyc, fired, clock, waited, elapsed>>
loopVars == <<tasks, readers, writers>>
vars == <<modVars, callVars, loopVars>>

----------------------------------------------------------------------------
(* Bounds of the model.                                                    *)

\* The operation is resumed at most MaxSteps times before it ends.
MaxSteps == 2
\* Descriptors are 1..MaxFd.
MaxFd == 2

\* A timeout of one second lasts Ticks ticks of the clock.
Ticks == 3

Fds == 1 .. MaxFd
NoFd == -1
NoneV == "None"
Unbound == "unbound"
NoExc == "none"

----------------------------------------------------------------------------
(* Masks.                                                                  *)

WAIT_R == {"R"}
WAIT_W == {"W"}
WAIT_RW == {"R", "W"}
READY_R == {"R"}
READY_W == {"W"}
READY_RW == {"R", "W"}

\* What a generator may yield as a mask, the empty mask included.
Masks == SUBSET {"R", "W"}

\* The timeouts a caller passes: None, or a number of seconds.
Timeouts == {<<>>, <<0>>, <<1>>}

\* Python truthiness of an optional number.
Truthy(t) == t # <<>> /\ t[1] # 0

\* The tick at which a wait started with timeout t gives up.
Deadline(t) == t[1] * Ticks

----------------------------------------------------------------------------
(* The choice of the default wait function (module level, lines 293-328).  *)

\* str.startswith
StartsWith(str, prefix) ==
    Len(str) >= Len(prefix) /\ SubSeq(str, 1, Len(prefix)) = prefix

\* The names the environment variable is tried with.
OverrideNames ==
    {"wait_selector", "wait_select", "wait_epoll", "wait_c", "wait_async",
     "wait_conn", "wait_conn_async", "wait_for", "wait_poll", "select"}

\* The strategy registry, read generously: every wait function the module
\* defines (lines 33, 67, 100, 150, 210, 253), and wait_c when available
\* (line 294).
Registry(native) ==
    {"wait_selector", "wait_conn", "wait_async", "wait_conn_async",
     "wait_select", "wait_epoll"}
        \cup (IF native THEN {"wait_c"} ELSE {})

\* globals() when line 305 runs: the imported names, the constants and the
\* functions defined above it; wait_c only when _psycopg is available.
Globals(native) ==
    {"os", "sys", "select", "selectors", "Dict", "Optional",
     "get_event_loop", "wait_for", "Event", "TimeoutError", "DefaultSelector",
     "e", "RV", "PQGen", "PQGenConn", "WaitFunc", "Wait", "Ready", "_psycopg",
     "WAIT_R", "WAIT_W", "WAIT_RW", "READY_R", "READY_W", "READY_RW",
     "wait_selector", "wait_conn", "wait_async", "wait_conn_async",
     "wait_select", "poll_evmasks", "wait_epoll"}
        \cup (IF native THEN {"wait_c"} ELSE {})

\* hasattr(selectors, "EpollSelector"): where epoll exists it is the default.
HasEpollSelector == DefaultSelector = "EpollSelector"

\* Lines 305-328: the binding of `wait`, or the ImportError.
ChooseWait(env, native, plat, defsel) ==
    IF env # <<>> THEN
        LET fname == env[1] IN
        IF ~StartsWith(fname, "wait_") \/ fname \notin Globals(native)
        THEN [state |-> "ImportError", wait |-> Unbound]
        ELSE [state |-> "loaded", wait |-> fname]
    ELSE IF native /\ plat # "win32" THEN [state |-> "loaded", wait |-> "wait_c"]
    ELSE IF defsel = "SelectSelector" THEN [state |-> "loaded", wait |-> "wait_select"]
    ELSE IF defsel = "EpollSelector" THEN [state |-> "loaded", wait |-> "wait_epoll"]
    ELSE [state |-> "loaded", wait |-> "wait_selector"]

\* The module body runs once.
ImportModule ==
    /\ modState = "loading"
    /\ LET r == ChooseWait(environ, psycopg_c, platform, DefaultSelector) IN
        /\ modState' = r.state
        /\ wait' = r.wait
    /\ UNCHANGED <<environ, psycopg_c, platform, DefaultSelector>>
    /\ UNCHANGED <<callVars, loopVars>>

----------------------------------------------------------------------------
(* The resumable operation: a generator, driven by next() and send().      *)

ReturnArgs == {<<>>, <<"v1">>, <<"v2">>}
OpErrors == {"ProtocolError", "TimeoutError"}

Outcome(k, fd, m, args, err) ==
    [kind |-> k, fd |-> fd, mask |-> m, args |-> args, err |-> err]

NoOutcome == Outcome("none", NoFd, {}, <<>>, NoExc)

ConnEngines == {"wait_conn", "wait_conn_async"}
CoopEngines == {"wait_async", "wait_conn_async"}
PollEngines == {"wait_selector", "wait_conn", "wait_select", "wait_epoll"}
WaitEngines == {"wait_selector", "wait_select", "wait_epoll"}
Engines == PollEngines \cup CoopEngines

\* What one step of the generator can produce: a request (a mask, and for a
\* connection generator also a descriptor), StopIteration with or without
\* a value, or an error.  It may suspend only `more` more times.
OpOutcomes(f, more) ==
    {Outcome("return", NoFd, {}, a, NoExc) : a \in ReturnArgs}
      \cup {Outcome("raise", NoFd, {}, <<>>, x) : x \in OpErrors}
      \cup (IF more
            THEN {Outcome("yield", fd, m, <<>>, NoExc) :
                     fd \in (IF f \in ConnEngines THEN Fds ELSE {NoFd}),
                     m \in Masks}
            ELSE {})

\* A wrong return value: the generator's value is dropped.
RVDropped(args) == NoneV

\* rv = ex.args[0] if ex.args else None
RV(args) == IF args # <<>> THEN args[1] ELSE NoneV

----------------------------------------------------------------------------
(* The objects of the standard library the engines use.                    *)

\* selectors: BaseSelector.register(fileobj, events)
SelRegister(reg, fd, events) ==
    IF events = {} THEN [exc |-> "ValueError", reg |-> reg]
    ELSE IF \E k \in reg : k[1] = fd THEN [exc |-> "KeyError", reg |-> reg]
    ELSE [exc |-> NoExc, reg |-> reg \cup {<<fd, events>>}]

\* selectors: BaseSelector.unregister(fileobj)
SelUnregister(reg, fd) ==
    IF \E k \in reg : k[1] = fd
    THEN [exc |-> NoExc, reg |-> {k \in reg : k[1] # fd}]
    ELSE [exc |-> "KeyError", reg |-> reg]

\* selectors: BaseSelector.select(timeout): the list of (key, events) with
\* events = what the OS reports & key.events, for the keys where that is
\* not empty.  At most one descriptor is ever registered here.
SelSelect(reg, raw) ==
    IF \E k \in reg : k[2] \cap raw # {}
    THEN LET k == CHOOSE k \in reg : k[2] \cap raw # {} IN <<<<k[1], k[2] \cap raw>>>>
    ELSE <<>>

\* select.select(rlist, wlist, xlist, timeout): the subsets that are ready
\* (with the three arguments of the call, kept for reference).
Select(rin, win, xin, raw) ==
    [rin |-> rin, win |-> win, xin |-> xin,
     rl |-> IF "R" \in raw THEN rin ELSE {},
     wl |-> IF "W" \in raw THEN win ELSE {},
     xl |-> IF "X" \in raw THEN xin ELSE {}]

\* epoll.poll(timeout): for an armed descriptor, the events reported are
\* those requested plus EPOLLERR and EPOLLHUP, which are always reported.
EpPoll(reg, raw) ==
    IF \E k \in reg : k[3] /\ raw \cap (k[2] \cup {"EPOLLERR", "EPOLLHUP"}) # {}
    THEN LET k == CHOOSE k \in reg :
                     k[3] /\ raw \cap (k[2] \cup {"EPOLLERR", "EPOLLHUP"}) # {}
         IN <<<<k[1], raw \cap (k[2] \cup {"EPOLLERR", "EPOLLHUP"})>>>>
    ELSE <<>>

\* EPOLLONESHOT: a reported descriptor is disabled until it is modified.
EpDisarm(reg, fds) ==
    {<<k[1], k[2], k[3] /\ ~("EPOLLONESHOT" \in k[2] /\ k[1] \in fds)>> : k \in reg}

\* epoll.register(fd, eventmask)
EpRegister(reg, fd, evmask) ==
    IF \E k \in reg : k[1] = fd THEN [exc |-> "FileExistsError", reg |-> reg]
    ELSE [exc |-> NoExc, reg |-> reg \cup {<<fd, evmask, TRUE>>}]

\* epoll.modify(fd, eventmask)
EpModify(reg, fd, evmask) ==
    IF \E k \in reg : k[1] = fd
    THEN [exc |-> NoExc, reg |-> {k \in reg : k[1] # fd} \cup {<<fd, evmask, TRUE>>}]
    ELSE [exc |-> "FileNotFoundError", reg |-> reg]

\* What the OS can report to a poll of each engine.
RawReports(f) ==
    CASE f \in {"wait_selector", "wait_conn"} -> SUBSET {"R", "W"}
      [] f = "wait_select" -> SUBSET {"R", "W", "X"}
      [] f = "wait_epoll" -> SUBSET {"EPOLLIN", "EPOLLOUT", "EPOLLERR", "EPOLLHUP"}
      [] OTHER -> {{}}

----------------------------------------------------------------------------
(* Pieces of the engines.                                                  *)

\* A wrong table: the flags for WAIT_RW lack EPOLLONESHOT.
poll_evmasks_level ==
    IF HasEpollSelector
    THEN [m \in {WAIT_R, WAIT_W, WAIT_RW} |->
            CASE m = WAIT_R -> {"EPOLLONESHOT", "EPOLLIN"}
              [] m = WAIT_W -> {"EPOLLONESHOT", "EPOLLOUT"}
              [] m = WAIT_RW -> {"EPOLLIN", "EPOLLOUT"}]
    ELSE [m \in {} |-> {}]

\* poll_evmasks (lines 241-250): defined only where EpollSelector exists.
poll_evmasks ==
    IF HasEpollSelector
    THEN [m \in {WAIT_R, WAIT_W, WAIT_RW} |->
            CASE m = WAIT_R -> {"EPOLLONESHOT", "EPOLLIN"}
              [] m = WAIT_W -> {"EPOLLONESHOT", "EPOLLOUT"}
              [] m = WAIT_RW -> {"EPOLLONESHOT", "EPOLLIN", "EPOLLOUT"}]
    ELSE [m \in {} |-> {}]

\* A wrong classification: the two tests exchanged.
EpollReadySwapped(ev) ==
    (IF ev \ {"EPOLLIN"} # {} THEN READY_R ELSE {})
        \cup (IF ev \ {"EPOLLOUT"} # {} THEN READY_W ELSE {})

\* wait_epoll, lines 278-282: the Ready state of a reported event mask.
EpollReady(ev) ==
    (IF ev \ {"EPOLLOUT"} # {} THEN READY_R ELSE {})
        \cup (IF ev \ {"EPOLLIN"} # {} THEN READY_W ELSE {})

\* A wrong wait_select: a descriptor of the error group counts as ready.
SelectReadyWithError(res) ==
    (IF res.rl # {} THEN READY_R ELSE {}) \cup (IF res.wl # {} THEN READY_W ELSE {})
        \cup (IF res.xl # {} THEN READY_RW ELSE {})

\* wait_select, lines 226-230: the Ready state of a select result.
SelectReady(res) ==
    (IF res.rl # {} THEN READY_R ELSE {}) \cup (IF res.wl # {} THEN READY_W ELSE {})

\* A wrong wakeup for wait_async: the state replaces what was recorded.
WakeupLast(f, old, state) == state

\* A wrong wakeup for wait_conn_async: the state is added to what was recorded.
WakeupUnion(f, old, state) == old \cup state

\* wakeup(state): wait_async accumulates (line 120), wait_conn_async
\* overwrites (line 172).
Wakeup(f, old, state) == IF f = "wait_async" THEN old \cup state ELSE state

\* The timeout as the engine uses it once the generator has started:
\* wait_conn and wait_conn_async turn a falsy timeout into None (lines 83,
\* 177), wait_epoll turns it into milliseconds (lines 265-268).
CoerceTimeout(f, t) ==
    CASE f \in ConnEngines -> IF ~Truthy(t) THEN <<>> ELSE t
      [] f = "wait_epoll" -> IF t = <<>> \/ t[1] < 0 THEN <<0>> ELSE <<t[1] * 1000>>
      [] OTHER -> t

\* A wrong handler: TimeoutError is not turned into ConnectionTimeout.
PropagateUnchanged(f, x) == x

\* What the caller sees of an exception raised inside the engine's try:
\* wait_conn_async turns TimeoutError into ConnectionTimeout (line 199).
Propagate(f, x) ==
    IF f = "wait_conn_async" /\ x = "TimeoutError" THEN "ConnectionTimeout" ELSE x

----------------------------------------------------------------------------
(* Leaving the engine.  The blocking engines hold their selector or epoll  *)
(* object in a `with` block, which closes it on every way out.             *)

Exit(p, value, error) ==
    /\ pc' = p
    /\ rv' = value
    /\ exc' = error
    /\ selReg' = {}
    /\ epReg' = {}

\* An exception leaves the function's try statement.
Raise(x) == Exit("raised", rv, Propagate(engine, x))

\* except StopIteration: return rv
Return(args) == Exit("returned", <<RV(args)>>, exc)

----------------------------------------------------------------------------
(* From a request of the generator to the engine's next wait.              *)

\* wait_selector, lines 52-53
ArmSelector(m) ==
    LET r == SelRegister(selReg, fileno, m) IN
    /\ s' = m
    /\ IF r.exc # NoExc
       THEN Raise(r.exc) /\ cyc' = {} /\ UNCHANGED rlist
       ELSE /\ pc' = "poll"
            /\ selReg' = r.reg
            /\ rlist' = <<>>
            /\ cyc' = {"register"}
            /\ UNCHANGED <<rv, exc, epReg>>
    /\ UNCHANGED <<fileno, ready, selres, fileevs, evSet, loopReaders, loopWriters,
                   nmodify>>

\* wait_conn, line 87 (after lines 82 and 93 unpacked the pair)
ArmConn(fd, m) ==
    LET r == SelRegister(selReg, fd, m) IN
    /\ fileno' = fd
    /\ s' = m
    /\ IF r.exc # NoExc
       THEN Raise(r.exc) /\ cyc' = {}
       ELSE /\ pc' = "poll"
            /\ selReg' = r.reg
            /\ cyc' = {"register"}
            /\ UNCHANGED <<rv, exc, epReg>>
    /\ UNCHANGED <<ready, rlist, selres, fileevs, evSet, loopReaders, loopWriters,
                   nmodify>>

\* wait_select, lines 217-219: nothing is registered
ArmSelect(m) ==
    /\ s' = m
    /\ pc' = "poll"
    /\ cyc' = {}
    /\ UNCHANGED <<fileno, ready, rlist, selres, fileevs, evSet, rv, exc, selReg,
                   epReg, loopReaders, loopWriters, nmodify>>

\* A wrong wait_epoll: the descriptor is not modified after a resume.
ArmEpollNoRearm(first, m) ==
    /\ s' = m
    /\ IF first /\ ~HasEpollSelector
       THEN Raise("AttributeError") /\ cyc' = {} /\ UNCHANGED <<fileevs, nmodify>>
       ELSE IF m \notin DOMAIN poll_evmasks
       THEN Raise("KeyError") /\ cyc' = {} /\ UNCHANGED <<fileevs, nmodify>>
       ELSE LET evmask == poll_evmasks[m]
                r == IF first THEN EpRegister(epReg, fileno, evmask)
                     ELSE [exc |-> NoExc, reg |-> epReg]
            IN IF r.exc # NoExc
               THEN Raise(r.exc) /\ cyc' = {} /\ UNCHANGED <<fileevs, nmodify>>
               ELSE /\ pc' = "poll"
                    /\ epReg' = r.reg
                    /\ nmodify' = nmodify
                    /\ cyc' = IF first THEN {"register"} ELSE {}
                    /\ fileevs' = <<>>
                    /\ UNCHANGED <<rv, exc, selReg>>
    /\ UNCHANGED <<fileno, ready, rlist, selres, evSet, loopReaders, loopWriters>>

\* wait_epoll: lines 270-272 after the first request, 285-286 after a resume
ArmEpoll(first, m) ==
    /\ s' = m
    /\ IF first /\ ~HasEpollSelector
       THEN Raise("AttributeError") /\ cyc' = {} /\ UNCHANGED <<fileevs, nmodify>>
       ELSE IF m \notin DOMAIN poll_evmasks
       THEN Raise("KeyError") /\ cyc' = {} /\ UNCHANGED <<fileevs, nmodify>>
       ELSE LET evmask == poll_evmasks[m]
                r == IF first THEN EpRegister(epReg, fileno, evmask)
                     ELSE EpModify(epReg, fileno, evmask)
            IN IF r.exc # NoExc
               THEN Raise(r.exc) /\ cyc' = {} /\ UNCHANGED <<fileevs, nmodify>>
               ELSE /\ pc' = "poll"
                    /\ epReg' = r.reg
                    /\ nmodify' = IF first THEN nmodify ELSE nmodify + 1
                    /\ cyc' = IF first THEN {"register"} ELSE {"modify"}
                    /\ fileevs' = <<>>
                    /\ UNCHANGED <<rv, exc, selReg>>
    /\ UNCHANGED <<fileno, ready, rlist, selres, evSet, loopReaders, loopWriters>>

\* A wrong cooperative engine: the event and the Ready state of the previous
\* wait are not cleared before the next wait.
ArmAsyncNoClear(fd, m) ==
    LET reader == m \cap WAIT_R
        writer == m \cap WAIT_W
        fn == IF engine = "wait_conn_async" THEN fd ELSE fileno
    IN
    /\ fileno' = fn
    /\ s' = m
    /\ IF reader = {} /\ writer = {}
       THEN /\ Raise("InternalError")
            /\ cyc' = {}
            /\ UNCHANGED <<ready, evSet, loopReaders, loopWriters>>
       ELSE /\ evSet' = evSet
            /\ ready' = ready
            /\ loopReaders' = IF reader # {} THEN loopReaders \cup {fn} ELSE loopReaders
            /\ loopWriters' = IF writer # {} THEN loopWriters \cup {fn} ELSE loopWriters
            /\ pc' = "poll"
            /\ cyc' = (IF reader # {} THEN {"add_reader"} ELSE {})
                        \cup (IF writer # {} THEN {"add_writer"} ELSE {})
                        \cup {"await"}
            /\ UNCHANGED <<rv, exc, selReg, epReg>>
    /\ UNCHANGED <<rlist, selres, fileevs, nmodify>>

\* wait_async, lines 126-137; wait_conn_async, lines 180-191
ArmAsync(fd, m) ==
    LET reader == m \cap WAIT_R
        writer == m \cap WAIT_W
        fn == IF engine = "wait_conn_async" THEN fd ELSE fileno
    IN
    /\ fileno' = fn
    /\ s' = m
    /\ IF reader = {} /\ writer = {}
       THEN /\ Raise("InternalError")
            /\ cyc' = {}
            /\ UNCHANGED <<ready, evSet, loopReaders, loopWriters>>
       ELSE /\ evSet' = FALSE
            /\ ready' = {}
            /\ loopReaders' = IF reader # {} THEN loopReaders \cup {fn} ELSE loopReaders
            /\ loopWriters' = IF writer # {} THEN loopWriters \cup {fn} ELSE loopWriters
            /\ pc' = "poll"
            /\ cyc' = (IF reader # {} THEN {"add_reader"} ELSE {})
                        \cup (IF writer # {} THEN {"add_writer"} ELSE {})
                        \cup {"await"}
            /\ UNCHANGED <<rv, exc, selReg, epReg>>
    /\ UNCHANGED <<rlist, selres, fileevs, nmodify>>

Arm(first, fd, m) ==
    CASE engine = "wait_selector" -> ArmSelector(m)
      [] engine = "wait_conn" -> ArmConn(fd, m)
      [] engine = "wait_select" -> ArmSelect(m)
      [] engine = "wait_epoll" -> ArmEpoll(first, m)
      [] engine \in CoopEngines -> ArmAsync(fd, m)

\* What follows a step of the generator: its request is served, its
\* StopIteration ends the call with its value, its error propagates.
AfterOp(o, first) ==
    CASE o.kind = "yield" -> Arm(first, o.fd, o.mask)
      [] o.kind = "return" ->
            /\ Return(o.args)
            /\ UNCHANGED <<fileno, s, ready, rlist, selres, fileevs, evSet,
                           loopReaders, loopWriters, nmodify, cyc>>
      [] o.kind = "raise" ->
            /\ Raise(o.err)
            /\ UNCHANGED <<fileno, s, ready, rlist, selres, fileevs, evSet,
                           loopReaders, loopWriters, nmodify, cyc>>

\* No callback has been called.
NoneFired == [all |-> {}, last |-> {}]

\* A wrong timer: the time the earlier waits took counts against the next.
WaitClockKept(c) == c

\* sel.select(timeout=timeout) and wait_for(ev.wait(), timeout) take the
\* timeout relative to the moment of the call (lines 88, 191): the timer of
\* each wait starts from zero.
WaitClock(c) == 0

\* A wait begins when the step has taken the engine to its poll or await.
StartWait ==
    /\ IF pc' = "poll"
       THEN /\ clock' = WaitClock(clock)
            /\ waited' = 0
            /\ fired' = NoneFired
       ELSE UNCHANGED <<clock, waited, fired>>
    /\ UNCHANGED elapsed

\* s = next(gen), and the code up to the first wait
GenNext ==
    /\ pc = "next"
    /\ \E o \in OpOutcomes(engine, TRUE) :
        /\ opOut' = o
        /\ timeout' = IF o.kind = "yield" THEN CoerceTimeout(engine, timeout) ELSE timeout
        /\ AfterOp(o, TRUE)
    /\ StartWait
    /\ UNCHANGED <<engine, resumes, sent>>
    /\ UNCHANGED <<modVars, loopVars>>

\* s = gen.send(ready), and the code up to the next wait
Resume ==
    /\ pc = "send"
    /\ \E o \in OpOutcomes(engine, resumes + 1 < MaxSteps) :
        /\ opOut' = o
        /\ AfterOp(o, FALSE)
    /\ StartWait
    /\ resumes' = resumes + 1
    /\ sent' = <<[fd |-> fileno, mask |-> s, ready |-> ready]>>
    /\ UNCHANGED <<engine, timeout>>
    /\ UNCHANGED <<modVars, loopVars>>

----------------------------------------------------------------------------
(* The blocking engines: the poll returns.                                 *)

\* A wrong wait_selector: an empty result is not retried but ends the call.
PollSelectorNoRetry(raw) ==
    LET rl == SelSelect(selReg, raw)
        u == SelUnregister(selReg, fileno)
    IN
    /\ rlist' = <<rl>>
    /\ cyc' = cyc \cup {"poll"}
    /\ IF rl = <<>>
       THEN Raise("ConnectionTimeout") /\ UNCHANGED ready
       ELSE /\ ready' = rl[1][2]
            /\ pc' = "send"
            /\ selReg' = u.reg
            /\ UNCHANGED <<rv, exc, epReg>>
    /\ UNCHANGED <<fileno, s, selres, fileevs, evSet, loopReaders, loopWriters,
                   nmodify>>

\* A wrong wait_selector: the descriptor is not unregistered after the poll.
PollSelectorKeepsRegistration(raw) ==
    LET rl == SelSelect(selReg, raw) IN
    /\ rlist' = <<rl>>
    /\ cyc' = cyc \cup {"poll"}
    /\ IF rl = <<>>
       THEN /\ pc' = "poll"
            /\ UNCHANGED <<ready, rv, exc, selReg, epReg>>
       ELSE /\ ready' = rl[1][2]
            /\ IF s \cap rl[1][2] = {}
               THEN Raise("AssertionError")
               ELSE /\ pc' = "send"
                    /\ UNCHANGED <<rv, exc, selReg, epReg>>
    /\ UNCHANGED <<fileno, s, selres, fileevs, evSet, loopReaders, loopWriters,
                   nmodify>>

\* wait_selector, lines 54-59
PollSelector(raw) ==
    LET rl == SelSelect(selReg, raw)
        u == SelUnregister(selReg, fileno)
    IN
    /\ rlist' = <<rl>>
    /\ cyc' = cyc \cup {"poll"}
    /\ IF rl = <<>>
       THEN /\ pc' = "poll"
            /\ UNCHANGED <<ready, rv, exc, selReg, epReg>>
       ELSE IF u.exc # NoExc
       THEN Raise(u.exc) /\ UNCHANGED ready
       ELSE /\ ready' = rl[1][2]
            /\ IF s \cap rl[1][2] = {}
               THEN Raise("AssertionError")
               ELSE /\ pc' = "send"
                    /\ selReg' = u.reg
                    /\ UNCHANGED <<rv, exc, epReg>>
    /\ UNCHANGED <<fileno, s, selres, fileevs, evSet, loopReaders, loopWriters,
                   nmodify>>

\* A wrong wait_conn: the descriptor is left registered after the select.
PollConnKeepsRegistration(raw) ==
    LET rl == SelSelect(selReg, raw) IN
    /\ rlist' = <<rl>>
    /\ cyc' = cyc \cup {"poll"}
    /\ IF rl = <<>>
       THEN Raise("ConnectionTimeout") /\ UNCHANGED ready
       ELSE /\ ready' = rl[1][2]
            /\ pc' = "send"
            /\ UNCHANGED <<rv, exc, selReg, epReg>>
    /\ UNCHANGED <<fileno, s, selres, fileevs, evSet, loopReaders, loopWriters,
                   nmodify>>

\* wait_conn, lines 88-92
PollConn(raw) ==
    LET rl == SelSelect(selReg, raw)
        u == SelUnregister(selReg, fileno)
    IN
    /\ rlist' = <<rl>>
    /\ cyc' = cyc \cup {"poll"}
    /\ IF u.exc # NoExc
       THEN Raise(u.exc) /\ UNCHANGED ready
       ELSE IF rl = <<>>
       THEN Raise("ConnectionTimeout") /\ UNCHANGED ready
       ELSE /\ ready' = rl[1][2]
            /\ pc' = "send"
            /\ selReg' = u.reg
            /\ UNCHANGED <<rv, exc, epReg>>
    /\ UNCHANGED <<fileno, s, selres, fileevs, evSet, loopReaders, loopWriters,
                   nmodify>>

\* wait_select, lines 220-233
PollSelect(raw) ==
    LET fnlist == {fileno}
        res == Select(IF s \cap WAIT_R # {} THEN fnlist ELSE {},
                      IF s \cap WAIT_W # {} THEN fnlist ELSE {},
                      fnlist, raw)
    IN
    /\ selres' = <<res>>
    /\ cyc' = cyc \cup {"poll"}
    /\ ready' = SelectReady(res)
    /\ pc' = IF SelectReady(res) = {} THEN "poll" ELSE "send"
    /\ UNCHANGED <<fileno, s, rlist, fileevs, evSet, rv, exc, selReg, epReg,
                   loopReaders, loopWriters, nmodify>>

\* wait_epoll, lines 274-282
PollEpoll(raw) ==
    LET fe == EpPoll(epReg, raw) IN
    /\ fileevs' = <<fe>>
    /\ cyc' = cyc \cup {"poll"}
    /\ IF fe = <<>>
       THEN /\ pc' = "poll"
            /\ UNCHANGED <<ready, epReg>>
       ELSE /\ ready' = EpollReady(fe[1][2])
            /\ epReg' = EpDisarm(epReg, {fe[1][1]})
            /\ pc' = "send"
    /\ UNCHANGED <<fileno, s, rlist, selres, evSet, rv, exc, selReg,
                   loopReaders, loopWriters, nmodify>>

\* The poll of a blocking engine returns what the OS reports.
Poll ==
    /\ pc = "poll"
    /\ engine \in PollEngines
    /\ \E raw \in RawReports(engine) :
        CASE engine = "wait_selector" -> PollSelector(raw)
          [] engine = "wait_conn" -> PollConn(raw)
          [] engine = "wait_select" -> PollSelect(raw)
          [] engine = "wait_epoll" -> PollEpoll(raw)
    /\ UNCHANGED <<engine, timeout, opOut, resumes, sent, fired, clock, waited, elapsed>>
    /\ UNCHANGED <<modVars, loopVars>>

\* The poll fails in the OS: the error leaves the engine as it is.
PollError ==
    /\ pc = "poll"
    /\ engine \in PollEngines
    /\ Raise("OSError")
    /\ cyc' = cyc \cup {"poll"}
    /\ UNCHANGED <<engine, timeout, fileno, s, ready, rlist, selres, fileevs, evSet,
                   loopReaders, loopWriters, opOut, resumes, sent, nmodify,
                   fired, clock, waited, elapsed>>
    /\ UNCHANGED <<modVars, loopVars>>

----------------------------------------------------------------------------
(* The cooperative engines: what happens while the coroutine is suspended  *)
(* in `await ev.wait()` (line 137) or `await wait_for(ev.wait(), timeout)` *)
(* (line 191).                                                             *)

\* The event loop calls a registered callback: wakeup(state).
Callback(registered, state) ==
    /\ pc = "poll"
    /\ engine \in CoopEngines
    /\ fileno \in registered
    /\ ready' = Wakeup(engine, ready, state)
    /\ evSet' = TRUE
    /\ fired' = [all |-> fired.all \cup state, last |-> state]
    /\ UNCHANGED <<pc, engine, timeout, fileno, s, rlist, selres, fileevs, rv, exc,
                   selReg, epReg, loopReaders, loopWriters, opOut, resumes, sent, nmodify,
                   cyc, clock, waited, elapsed>>
    /\ UNCHANGED <<modVars, loopVars>>

ReaderReady == Callback(loopReaders, READY_R)

WriterReady == Callback(loopWriters, READY_W)

\* A wrong finally clause: the writer callback is forgotten.
RemoveCallbacksReaderOnly ==
    /\ loopReaders' = IF s \cap WAIT_R # {} THEN loopReaders \ {fileno} ELSE loopReaders
    /\ loopWriters' = loopWriters

\* The finally clause, lines 138-142 and 192-196.
RemoveCallbacks ==
    /\ loopReaders' = IF s \cap WAIT_R # {} THEN loopReaders \ {fileno} ELSE loopReaders
    /\ loopWriters' = IF s \cap WAIT_W # {} THEN loopWriters \ {fileno} ELSE loopWriters

\* The event is set: the await ends, and the finally clause runs.
Wake ==
    /\ pc = "poll"
    /\ engine \in CoopEngines
    /\ evSet
    /\ RemoveCallbacks
    /\ pc' = "send"
    /\ UNCHANGED <<engine, timeout, fileno, s, ready, rlist, selres, fileevs, evSet,
                   rv, exc, selReg, epReg, opOut, resumes, sent, nmodify, cyc,
                   fired, clock, waited, elapsed>>
    /\ UNCHANGED <<modVars, loopVars>>

\* Time passes while a connection-phase engine waits with a timeout, until
\* the timer of the wait runs out.
Tick ==
    /\ pc = "poll"
    /\ engine \in ConnEngines
    /\ timeout # <<>>
    /\ clock < Deadline(timeout)
    /\ clock' = clock + 1
    /\ waited' = waited + 1
    /\ elapsed' = elapsed + 1
    /\ UNCHANGED <<pc, engine, timeout, fileno, s, ready, rlist, selres, fileevs, evSet,
                   rv, exc, selReg, epReg, loopReaders, loopWriters, opOut, resumes,
                   sent, nmodify, cyc, fired>>
    /\ UNCHANGED <<modVars, loopVars>>

\* wait_for() gives up when its timer has run out: TimeoutError is raised
\* at the await, the finally clause runs, and line 199 catches it.
TimeoutExpires ==
    /\ pc = "poll"
    /\ engine = "wait_conn_async"
    /\ timeout # <<>>
    /\ clock >= Deadline(timeout)
    /\ RemoveCallbacks
    /\ Raise("TimeoutError")
    /\ UNCHANGED <<engine, timeout, fileno, s, ready, rlist, selres, fileevs, evSet,
                   opOut, resumes, sent, nmodify, cyc, fired, clock, waited, elapsed>>
    /\ UNCHANGED <<modVars, loopVars>>

\* The task is cancelled while suspended: CancelledError is raised at the
\* await, the finally clause runs, and the error propagates.
Cancel ==
    /\ pc = "poll"
    /\ engine \in CoopEngines
    /\ RemoveCallbacks
    /\ Raise("CancelledError")
    /\ UNCHANGED <<engine, timeout, fileno, s, ready, rlist, selres, fileevs, evSet,
                   opOut, resumes, sent, nmodify, cyc, fired, clock, waited, elapsed>>
    /\ UNCHANGED <<modVars, loopVars>>

----------------------------------------------------------------------------
(* Several coroutines in one event loop, each running wait_async or        *)
(* wait_conn_async with its own generator.  ev, ready, s and fileno are     *)
(* locals of each call (lines 113-116, 165-168); the loop's tables of       *)
(* reader and writer callbacks are shared by all of them.                   *)

TaskIds == {1, 2}

NoTask ==
    [pc |-> "idle", engine |-> "none", fileno |-> NoFd, s |-> {}, ready |-> {},
     ev |-> FALSE, resumes |-> 0, exc |-> NoExc]

\* No coroutine has been started.
NoTasks ==
    /\ tasks = [i \in TaskIds |-> NoTask]
    /\ readers = {}
    /\ writers = {}

\* loop.add_reader(fd, callback, *args), loop.add_writer: the loop keeps one
\* callback of each kind per descriptor, and a new one replaces the old.
AddCallback(table, fd, i) == {e \in table : e[1] # fd} \cup {<<fd, i>>}

\* loop.remove_reader(fd), loop.remove_writer: whatever is there is removed.
RemoveCallback(table, fd) == {e \in table : e[1] # fd}

\* A wrong engine: ev and ready are shared by all the calls.
WakeupTargetsShared(i) == TaskIds

\* wakeup is a closure of the call that defined it: it sets that call's
\* ready (nonlocal, lines 119, 171) and that call's ev (lines 113, 165).
WakeupTargets(i) == {i}

\* A coroutine is started on wait_async(gen, fileno) or wait_conn_async(gen).
TaskCall(i) ==
    /\ modState = "loaded"
    /\ tasks[i].pc = "idle"
    /\ \E f \in CoopEngines, fd \in Fds :
        tasks' = [tasks EXCEPT ![i] =
                    [@ EXCEPT !.pc = "next", !.engine = f,
                              !.fileno = IF f = "wait_conn_async" THEN NoFd ELSE fd]]
    /\ UNCHANGED <<readers, writers>>
    /\ UNCHANGED <<modVars, callVars>>

\* next(gen) or gen.send(ready), and the code up to the await (lines
\* 124-136, 176-190, and 143, 197).
TaskStep(i) ==
    LET t == tasks[i]
        n == IF t.pc = "send" THEN t.resumes + 1 ELSE t.resumes
    IN
    /\ t.pc \in {"next", "send"}
    /\ \E o \in OpOutcomes(t.engine, t.pc = "next" \/ t.resumes + 1 < MaxSteps) :
        CASE o.kind = "yield" ->
                LET reader == o.mask \cap WAIT_R
                    writer == o.mask \cap WAIT_W
                    fn == IF t.engine = "wait_conn_async" THEN o.fd ELSE t.fileno
                IN
                IF reader = {} /\ writer = {}
                THEN /\ tasks' = [tasks EXCEPT ![i] =
                                    [@ EXCEPT !.pc = "done", !.fileno = fn, !.s = o.mask,
                                              !.resumes = n, !.exc = "InternalError"]]
                     /\ UNCHANGED <<readers, writers>>
                ELSE /\ tasks' = [tasks EXCEPT ![i] =
                                    [@ EXCEPT !.pc = "await", !.fileno = fn, !.s = o.mask,
                                              !.resumes = n, !.ev = FALSE, !.ready = {}]]
                     /\ readers' = IF reader # {} THEN AddCallback(readers, fn, i)
                                   ELSE readers
                     /\ writers' = IF writer # {} THEN AddCallback(writers, fn, i)
                                   ELSE writers
          [] o.kind = "return" ->
                /\ tasks' = [tasks EXCEPT ![i] = [@ EXCEPT !.pc = "done", !.resumes = n]]
                /\ UNCHANGED <<readers, writers>>
          [] o.kind = "raise" ->
                /\ tasks' = [tasks EXCEPT ![i] =
                                [@ EXCEPT !.pc = "done", !.resumes = n,
                                          !.exc = Propagate(t.engine, o.err)]]
                /\ UNCHANGED <<readers, writers>>
    /\ UNCHANGED <<modVars, callVars>>

\* The loop calls the callback registered in an entry of a table:
\* wakeup(state) of the call that registered it.
LoopCalls(e, state) ==
    /\ tasks' = [j \in TaskIds |->
                    IF j \in WakeupTargets(e[2])
                    THEN [tasks[j] EXCEPT
                            !.ready = Wakeup(tasks[e[2]].engine, tasks[j].ready, state),
                            !.ev = TRUE]
                    ELSE tasks[j]]
    /\ UNCHANGED <<readers, writers>>
    /\ UNCHANGED <<modVars, callVars>>

\* A descriptor is readable, or writable, and has a callback for it.
LoopReader == \E e \in readers : LoopCalls(e, READY_R)

LoopWriter == \E e \in writers : LoopCalls(e, READY_W)

\* The finally clause (lines 138-142, 192-196) of task i.
TaskRemoveCallbacks(i) ==
    /\ readers' = IF tasks[i].s \cap WAIT_R # {}
                  THEN RemoveCallback(readers, tasks[i].fileno) ELSE readers
    /\ writers' = IF tasks[i].s \cap WAIT_W # {}
                  THEN RemoveCallback(writers, tasks[i].fileno) ELSE writers

\* The event of task i is set: its await ends and its finally clause runs.
TaskWake(i) ==
    /\ tasks[i].pc = "await"
    /\ tasks[i].ev
    /\ TaskRemoveCallbacks(i)
    /\ tasks' = [tasks EXCEPT ![i] = [@ EXCEPT !.pc = "send"]]
    /\ UNCHANGED <<modVars, callVars>>

\* Task i is cancelled, or its wait_for gives up, while it is suspended:
\* the finally clause runs and the error leaves the call.
TaskCancel(i) ==
    /\ tasks[i].pc = "await"
    /\ TaskRemoveCallbacks(i)
    /\ \E x \in {"CancelledError"}
               \cup (IF tasks[i].engine = "wait_conn_async" THEN {"TimeoutError"} ELSE {}) :
        tasks' = [tasks EXCEPT ![i] =
                    [@ EXCEPT !.pc = "done", !.exc = Propagate(tasks[i].engine, x)]]
    /\ UNCHANGED <<modVars, callVars>>

----------------------------------------------------------------------------
(* Calls.                                                                  *)

NoCall ==
    /\ pc = "idle"
    /\ engine = "none"
    /\ timeout = <<>>
    /\ fileno = NoFd
    /\ s = {}
    /\ ready = {}
    /\ rlist = <<>>
    /\ selres = <<>>
    /\ fileevs = <<>>
    /\ evSet = FALSE
    /\ rv = <<>>
    /\ exc = NoExc
    /\ selReg = {}
    /\ epReg = {}
    /\ loopReaders = {}
    /\ loopWriters = {}
    /\ opOut = NoOutcome
    /\ resumes = 0
    /\ sent = <<>>
    /\ nmodify = 0
    /\ cyc = {}
    /\ fired = NoneFired
    /\ clock = 0
    /\ waited = 0
    /\ elapsed = 0

\* A caller calls one of the module's functions with a new generator.
Call ==
    /\ pc = "idle"
    /\ modState = "loaded"
    /\ \E f \in Engines, t \in Timeouts, fd \in Fds :
        /\ engine' = f
        /\ timeout' = IF f = "wait_async" THEN <<>> ELSE t
        /\ fileno' = IF f \in ConnEngines THEN NoFd ELSE fd
    /\ pc' = "next"
    /\ UNCHANGED <<s, ready, rlist, selres, fileevs, evSet, rv, exc, selReg, epReg,
                   loopReaders, loopWriters, opOut, resumes, sent, nmodify, cyc,
                   fired, clock, waited, elapsed>>
    /\ UNCHANGED <<modVars, loopVars>>

\* A caller calls the module global `wait`.  Of what it can be bound to, the
\* three blocking engines are followed; anything else runs out of view.
CallWait ==
    /\ pc = "idle"
    /\ modState = "loaded"
    /\ engine' = wait
    /\ \E t \in Timeouts, fd \in Fds :
        /\ timeout' = t
        /\ fileno' = fd
    /\ pc' = IF wait \in WaitEngines THEN "next" ELSE "opaque"
    /\ UNCHANGED <<s, ready, rlist, selres, fileevs, evSet, rv, exc, selReg, epReg,
                   loopReaders, loopWriters, opOut, resumes, sent, nmodify, cyc,
                   fired, clock, waited, elapsed>>
    /\ UNCHANGED <<modVars, loopVars>>

----------------------------------------------------------------------------
(* Specifications.                                                         *)

\* The module has been imported on a Linux host without the C extension
\* and without the override; no call has been made yet.
Init ==
    /\ environ = <<>>
    /\ psycopg_c = FALSE
    /\ platform = "linux"
    /\ DefaultSelector = "EpollSelector"
    /\ modState = "loaded"
    /\ wait = ChooseWait(<<>>, FALSE, "linux", "EpollSelector").wait
    /\ NoCall
    /\ NoTasks

Next ==
    \/ Call
    \/ GenNext
    \/ Poll
    \/ PollError
    \/ ReaderReady
    \/ WriterReady
    \/ Wake
    \/ Tick
    \/ TimeoutExpires
    \/ Cancel
    \/ Resume

Spec == Init /\ [][Next]_vars

\* The module is about to be imported, in any environment.
InitSel ==
    /\ environ \in {<<>>} \cup {<<n>> : n \in OverrideNames}
    /\ psycopg_c \in BOOLEAN
    /\ platform \in {"linux", "win32"}
    /\ DefaultSelector \in {"SelectSelector", "EpollSelector", "KqueueSelector"}
    /\ modState = "loading"
    /\ wait = Unbound
    /\ NoCall
    /\ NoTasks

NextSel ==
    \/ ImportModule
    \/ CallWait
    \/ GenNext
    \/ Poll
    \/ PollError
    \/ Resume

SpecSel == InitSel /\ [][NextSel]_vars

\* The coroutines of one event loop, interleaved at their awaits.
NextLoop ==
    \/ \E i \in TaskIds : TaskCall(i)
    \/ \E i \in TaskIds : TaskStep(i)
    \/ LoopReader
    \/ LoopWriter
    \/ \E i \in TaskIds : TaskWake(i)
    \/ \E i \in TaskIds : TaskCancel(i)

SpecLoop == Init /\ [][NextLoop]_vars

\* The engines and the generator keep running, the OS reports readiness to
\* a poll that waits for it, and the event loop calls a registered callback
\* and wakes the coroutine whose event is set.
FairSpec ==
    /\ Spec
    /\ WF_vars(GenNext)
    /\ WF_vars(Resume)
    /\ WF_vars(Poll /\ pc' # "poll")
    /\ WF_vars(ReaderReady \/ WriterReady)
    /\ WF_vars(Wake)

----------------------------------------------------------------------------
(* Properties.                                                             *)

\* C1: in every engine, the Ready state passed to the operation by
\* gen.send() is not empty and shares a bit with the mask the operation
\* had requested when it was passed.
C1_ReadyIntersectsRequest ==
    sent # <<>> => (sent[1].ready # {} /\ sent[1].ready \cap sent[1].mask # {})

\* C1 witness: wait_epoll resumed an operation that asked for Readable with
\* Readable and Writable both (the OS reported an error or a hangup).
C1_Witness ==
    /\ engine = "wait_epoll"
    /\ sent # <<>>
    /\ sent[1].mask = WAIT_R
    /\ sent[1].ready = READY_RW

\* The generator ended with StopIteration and the caller got its value.
ReturnedOpValue ==
    /\ pc = "returned"
    /\ opOut.kind = "return"
    /\ rv = <<IF opOut.args # <<>> THEN opOut.args[1] ELSE NoneV>>

\* The hypothesis of C2 does not hold of the run: the generator raised or
\* requested the empty mask, the poll failed in the OS, the task was
\* cancelled, or a select of wait_conn returned an empty list although its
\* timer had not run out.
C2_HypothesisBroken ==
    \/ opOut.kind = "raise"
    \/ opOut.kind = "yield" /\ opOut.mask = {}
    \/ pc = "raised" /\ exc \in {"OSError", "CancelledError"}
    \/ /\ engine = "wait_conn" /\ pc = "raised" /\ exc = "ConnectionTimeout"
       /\ rlist = <<<<>>>>
       /\ (timeout = <<>> \/ clock < Deadline(timeout))

\* C2 as stated: once called, every engine eventually returns the
\* operation's final value, when the operation completes and the
\* descriptor becomes ready at each suspension.
C2_AlwaysReturns ==
    (pc = "next") ~> (ReturnedOpValue \/ C2_HypothesisBroken)

\* C2 amended: as above, unless a wait of a connection-phase engine ended
\* without readiness, in which case the call ends with ConnectionTimeout.
C2_ReturnsUnlessConnTimeout ==
    (pc = "next") ~>
        \/ ReturnedOpValue
        \/ C2_HypothesisBroken
        \/ /\ engine \in ConnEngines
           /\ pc = "raised"
           /\ exc = "ConnectionTimeout"
           /\ opOut.kind = "yield"

\* C2 witness: a call resumed its operation twice and returned the value
\* the operation ended with.
C2_Witness ==
    /\ ReturnedOpValue
    /\ resumes = 2
    /\ rv = <<"v2">>

\* The latest poll of a blocking engine for ordinary operations returned
\* nothing: an empty list, or three empty lists from select.
LastPollEmpty ==
    CASE engine = "wait_selector" -> rlist = <<<<>>>>
      [] engine = "wait_select" ->
            /\ selres # <<>>
            /\ selres[1].rl = {} /\ selres[1].wl = {} /\ selres[1].xl = {}
      [] engine = "wait_epoll" -> fileevs = <<<<>>>>
      [] OTHER -> FALSE

\* The latest poll of such an engine returned something.
LastPollNonEmpty ==
    CASE engine = "wait_selector" -> rlist # <<>> /\ rlist[1] # <<>>
      [] engine = "wait_select" ->
            /\ selres # <<>>
            /\ selres[1].rl \cup selres[1].wl \cup selres[1].xl # {}
      [] engine = "wait_epoll" -> fileevs # <<>> /\ fileevs[1] # <<>>
      [] OTHER -> FALSE

\* C3: in wait_selector, wait_select and wait_epoll, with any timeout, a
\* poll that returns an empty result leaves the engine polling: the
\* operation is not resumed and nothing is raised or returned; and the
\* operation is resumed only when the latest poll returned something.
C3_Step ==
    engine \in WaitEngines =>
        /\ (Poll /\ LastPollEmpty') =>
              (pc' = "poll" /\ resumes' = resumes /\ sent' = sent
                  /\ exc' = NoExc /\ rv' = rv)
        /\ (resumes' # resumes) => LastPollNonEmpty

C3_EmptyPollRetried == [][C3_Step]_vars

\* C3 witness: wait_selector, called with timeout None, got an empty list
\* from select and is polling again.
C3_Witness ==
    /\ engine = "wait_selector"
    /\ timeout = <<>>
    /\ rlist = <<<<>>>>
    /\ pc = "poll"
    /\ resumes = 1

\* A wait of a connection-phase engine ends with no readiness reported:
\* select returns an empty list, or wait_for times out with the event unset.
WaitEndsEmpty ==
    \/ engine = "wait_conn" /\ Poll /\ rlist' = <<<<>>>>
    \/ engine = "wait_conn_async" /\ TimeoutExpires /\ ~evSet

\* C4: in wait_conn and wait_conn_async with a positive timeout, a wait
\* that ends with no readiness reported ends the call with
\* ConnectionTimeout, without another gen.send(), and with no descriptor
\* registered and no callback left on the event loop.
C4_Step ==
    (engine \in ConnEngines /\ timeout # <<>> /\ timeout[1] > 0 /\ WaitEndsEmpty) =>
        /\ pc' = "raised"
        /\ exc' = "ConnectionTimeout"
        /\ resumes' = resumes
        /\ sent' = sent
        /\ selReg' = {}
        /\ loopReaders' = {}
        /\ loopWriters' = {}

C4_TimeoutRaisesCleanly == [][C4_Step]_vars

\* C4 witness: wait_conn_async with timeout 1 timed out in its second wait,
\* for both conditions, with no callback called.
C4_Witness ==
    /\ engine = "wait_conn_async"
    /\ timeout = <<1>>
    /\ pc = "raised"
    /\ exc = "ConnectionTimeout"
    /\ opOut.kind = "yield"
    /\ s = WAIT_RW
    /\ ~evSet
    /\ resumes = 1

\* The descriptors a call has registered, in its selector or on the loop.
RegisteredFds == {k[1] : k \in selReg} \cup loopReaders \cup loopWriters

\* C5: in wait_conn and wait_conn_async, the only descriptor ever
\* registered is the one of the operation's latest request, and a
\* descriptor is registered only when none is registered (the previous one
\* has been deregistered first).
C5_Step ==
    engine' \in ConnEngines =>
        /\ RegisteredFds' \subseteq
              (IF opOut'.kind = "yield" THEN {opOut'.fd} ELSE {})
        /\ (RegisteredFds' \ RegisteredFds # {}) => RegisteredFds = {}

C5_OneDescriptor == [][C5_Step]_vars

\* C5 witness: wait_conn was resumed for one descriptor and now has another
\* one registered, the one just requested, and only it.
C5_Witness ==
    /\ engine = "wait_conn"
    /\ pc = "poll"
    /\ sent # <<>>
    /\ sent[1].fd # fileno
    /\ selReg = {<<fileno, s>>}

\* C6: when a call of wait_async or wait_conn_async has ended, by
\* returning or by any exception, no reader or writer callback is left on
\* the event loop.
C6_CallbacksRemovedOnExit ==
    (engine \in CoopEngines /\ pc \in {"returned", "raised"}) =>
        (loopReaders = {} /\ loopWriters = {})

\* C6 witness: wait_async was cancelled while suspended in its second
\* wait, with both callbacks registered.
C6_Witness ==
    /\ engine = "wait_async"
    /\ pc = "raised"
    /\ exc = "CancelledError"
    /\ s = WAIT_RW
    /\ resumes = 1

\* C7 as stated: whenever the operation requests a mask with neither bit
\* set, the call ends at once with InternalError, having registered
\* nothing and waited for nothing since the request.
C7_EmptyMaskIsInternalError ==
    (opOut.kind = "yield" /\ opOut.mask = {}) =>
        (pc = "raised" /\ exc = "InternalError" /\ cyc = {})

\* No call has been started and no descriptor has been touched.
NoEngineRan ==
    /\ pc = "idle"
    /\ engine = "none"
    /\ selReg = {} /\ epReg = {} /\ loopReaders = {} /\ loopWriters = {}
    /\ cyc = {}

\* C8 as stated: once the module body has run with the override set to a
\* name that is not a wait engine of the registry, the import has failed,
\* `wait` is unbound, and no engine has run.
C8_OverrideOnlyFromRegistry ==
    (modState # "loading" /\ environ # <<>> /\ environ[1] \notin Registry(psycopg_c)) =>
        (modState = "ImportError" /\ wait = Unbound /\ NoEngineRan)

\* The strategy C9 names for an environment: the override when it is valid
\* (none when it is set and not valid), else the native engine when
\* available off win32, else wait_select or wait_epoll by the default
\* selector, else wait_selector.
ExpectedWait ==
    IF environ # <<>>
    THEN (IF environ[1] \in Registry(psycopg_c) THEN environ[1] ELSE Unbound)
    ELSE IF psycopg_c /\ platform # "win32" THEN "wait_c"
    ELSE IF DefaultSelector = "SelectSelector" THEN "wait_select"
    ELSE IF DefaultSelector = "EpollSelector" THEN "wait_epoll"
    ELSE "wait_selector"

C9_Step ==
    modState' # "loading" =>
        /\ wait' = ExpectedWait'
        /\ modState # "loading" => wait' = wait

\* C9 as stated: in every environment the module body binds `wait` to the
\* first strategy that applies, and the binding never changes afterwards.
C9_FirstApplicableStrategy == [][C9_Step]_vars

\* The operation was just resumed and suspended again with a mask of
\* poll_evmasks.
ResumedWithRequest ==
    /\ resumes' = resumes + 1
    /\ opOut'.kind = "yield"
    /\ opOut'.mask \in {WAIT_R, WAIT_W, WAIT_RW}

C10_StepAsStated ==
    engine = "wait_epoll" => (nmodify' - nmodify = resumes' - resumes)

\* C10 as stated: wait_epoll modifies its descriptor exactly once at every
\* resume of the operation.
C10_OneModifyPerResume == [][C10_StepAsStated]_vars

C10_Step ==
    engine = "wait_epoll" =>
        /\ nmodify' - nmodify = (IF ResumedWithRequest THEN 1 ELSE 0)
        /\ ResumedWithRequest =>
              epReg' = {<<fileno, poll_evmasks[opOut'.mask], TRUE>>}

\* C10 amended: wait_epoll modifies its descriptor exactly once at every
\* resume after which the operation suspends again with a mask R, W or RW,
\* with the flags mapped from that mask, and at no other step: not at a
\* resume at which the operation ends, raises or requests another mask.
C10_OneModifyPerRequest == [][C10_Step]_vars

\* C10 witness: wait_epoll resumed the operation once, the operation asked
\* for another mask, and the descriptor is armed again with its flags.
C10_Witness ==
    /\ engine = "wait_epoll"
    /\ pc = "poll"
    /\ resumes = 1
    /\ nmodify = 1
    /\ sent[1].mask # s
    /\ epReg = {<<fileno, poll_evmasks[s], TRUE>>}

\* The engine has waited since the operation's latest request, for the mask
\* of that request, and the wait reported readiness: the poll returned the
\* descriptor (and, in wait_epoll, the report has disarmed it), or a
\* callback registered for the request set the event.
WaitReportedReady ==
    CASE engine \in {"wait_selector", "wait_conn"} ->
            /\ "poll" \in cyc
            /\ rlist # <<>> /\ rlist[1] # <<>>
            /\ rlist[1][1] = <<fileno, ready>>
            /\ ready # {} /\ ready \subseteq s
      [] engine = "wait_select" ->
            /\ "poll" \in cyc
            /\ selres # <<>>
            /\ ready = SelectReady(selres[1])
            /\ ready # {} /\ ready \subseteq s
      [] engine = "wait_epoll" ->
            /\ "poll" \in cyc
            /\ fileevs # <<>> /\ fileevs[1] # <<>>
            /\ ready # {}
            /\ epReg = {<<fileno, poll_evmasks[s], FALSE>>}
      [] engine \in CoopEngines ->
            /\ "await" \in cyc
            /\ evSet
            /\ ready # {} /\ ready \subseteq s
      [] OTHER -> FALSE

\* Nothing has been reported yet to the wait that is starting.
NothingReportedYet ==
    /\ "poll" \notin cyc
    /\ engine \in CoopEngines => (~evSet /\ ready = {})
    /\ engine = "wait_epoll" => epReg = {<<fileno, poll_evmasks[s], TRUE>>}

C11_Step ==
    (resumes' # resumes) =>
        /\ WaitReportedReady
        /\ (pc' = "poll") => NothingReportedYet'

\* C11: in every engine, each resume of the operation follows a wait made
\* for the operation's latest request that reported readiness, and the
\* wait that follows a resume starts with nothing reported: one report
\* resumes the operation once.
C11_OneResumePerReadiness == [][C11_Step]_vars

\* C11 witness: wait_async has resumed the operation once, has waited for
\* its second request, and a callback has set the event again.
C11_Witness ==
    /\ engine = "wait_async"
    /\ resumes = 1
    /\ pc = "poll"
    /\ evSet
    /\ ready = READY_W
    /\ sent[1].ready = READY_R

\* The wait of a connection-phase engine ends in this step without a
\* result: select returns an empty list, or wait_for gives up.
ConnWaitEndsEmpty ==
    \/ engine = "wait_conn" /\ Poll /\ rlist' = <<<<>>>>
    \/ engine = "wait_conn_async" /\ TimeoutExpires

C12_Step ==
    engine' \in ConnEngines =>
        /\ (exc' = "ConnectionTimeout" /\ exc # "ConnectionTimeout") => ConnWaitEndsEmpty
        /\ ((GenNext \/ Resume) /\ opOut'.kind = "raise") =>
              (pc' = "raised" /\ exc' = opOut'.err)
        /\ PollError => (pc' = "raised" /\ exc' = "OSError")

\* C12 as stated: a connection-phase engine raises ConnectionTimeout only
\* in a step that ends one of its waits without a result; an error raised
\* by the operation, a timeout-typed one included, or by the polling call
\* reaches the caller as it was raised.
C12_OnlyOwnTimeout == [][C12_Step]_vars

C13_Step ==
    (engine \in ConnEngines /\ ~Truthy(timeout)) =>
        /\ (pc = "poll") => exc' # "ConnectionTimeout"
        /\ (resumes' # resumes) => ready # {}

\* C13 as stated: wait_conn and wait_conn_async called with timeout None or
\* 0 never end a wait with ConnectionTimeout, whatever the polling
\* primitive returns, and resume the operation only with a readiness
\* report.
C13_NoTimeoutWithoutDeadline == [][C13_Step]_vars

\* The callbacks in a table of the loop that are task i's.
Owned(table, i) == {e \in table : e[2] = i}

\* The loop calls a callback of task i in this step.
CallbackOf(i) ==
    \/ \E e \in Owned(readers, i) : LoopCalls(e, READY_R)
    \/ \E e \in Owned(writers, i) : LoopCalls(e, READY_W)

\* Task i registers or removes callbacks in this step.
RegistersOrCleans(i) == TaskStep(i) \/ TaskWake(i) \/ TaskCancel(i)

\* For tasks i and j: a callback of i leaves j's event and Ready state as
\* they are, and a registration or cleanup of i leaves j's callbacks in the
\* loop as they are.
Isolated(i, j) ==
    /\ CallbackOf(i) => (tasks'[j].ev = tasks[j].ev /\ tasks'[j].ready = tasks[j].ready)
    /\ RegistersOrCleans(i) =>
          /\ Owned(readers', j) = Owned(readers, j)
          /\ Owned(writers', j) = Owned(writers, j)

C14_StepAsStated == \A i \in TaskIds : \A j \in TaskIds \ {i} : Isolated(i, j)

\* C14 as stated: for any two calls of the cooperative engines in one event
\* loop, a callback of one never sets the other's event or Ready state, and
\* the registration or cleanup of one never replaces or removes a callback
\* of the other.
C14_CallsIsolated == [][C14_StepAsStated]_vars

C14_Step ==
    \A i \in TaskIds : \A j \in TaskIds \ {i} :
        (tasks'[i].fileno # tasks[j].fileno) => Isolated(i, j)

\* C14 amended: the same, for two calls that wait on different descriptors.
C14_CallsOnDistinctFdsIsolated == [][C14_Step]_vars

\* C14 witness: two calls wait on different descriptors, each with both
\* callbacks in the loop; the first has been woken by one of its own.
C14_Witness ==
    /\ tasks[1].pc = "await" /\ tasks[2].pc = "await"
    /\ tasks[1].fileno # tasks[2].fileno
    /\ readers = {<<tasks[1].fileno, 1>>, <<tasks[2].fileno, 2>>}
    /\ writers = {<<tasks[1].fileno, 1>>, <<tasks[2].fileno, 2>>}
    /\ tasks[1].ev /\ ~tasks[2].ev
    /\ tasks[2].resumes = 1

\* The timer of a wait of a connection-phase engine runs out in this step.
ConnWaitTimesOut ==
    \/ engine = "wait_conn" /\ Poll /\ rlist' = <<<<>>>> /\ clock >= Deadline(timeout)
    \/ engine = "wait_conn_async" /\ TimeoutExpires

\* A wait of a connection-phase engine reports readiness in this step.
ConnWaitReports ==
    \/ engine = "wait_conn" /\ Poll /\ rlist' # <<<<>>>>
    \/ engine = "wait_conn_async" /\ Wake

C15_Step ==
    (engine \in ConnEngines /\ Truthy(timeout)) =>
        /\ ConnWaitTimesOut => waited = Deadline(timeout)
        /\ (ConnWaitReports /\ waited < Deadline(timeout)) =>
              (pc' = "send" /\ exc' = NoExc)

\* C15: in wait_conn and wait_conn_async with a timeout, the timer of a
\* wait runs out only when that wait itself has lasted the timeout,
\* however long the earlier waits took; a wait that reports readiness
\* before that resumes the operation and raises nothing.
C15_TimeoutPerCycle == [][C15_Step]_vars

\* C15 witness: wait_conn_async resumed its operation twice and returned
\* its value after waiting, in all, longer than the timeout.
C15_Witness ==
    /\ engine = "wait_conn_async"
    /\ Truthy(timeout)
    /\ pc = "returned"
    /\ resumes = 2
    /\ elapsed > Deadline(timeout)

C16_Step ==
    engine = "wait_async" =>
        /\ (resumes' # resumes) =>
              /\ sent'[1].ready = fired.all
              /\ sent'[1].mask = WAIT_RW =>
                    CASE fired.all = READY_R -> sent'[1].ready = READY_R
                      [] fired.all = READY_W -> sent'[1].ready = READY_W
                      [] fired.all = READY_RW -> sent'[1].ready = READY_RW
                      [] OTHER -> FALSE
        /\ (pc # "poll" /\ pc' = "poll") => ready' = {}

\* C16: in wait_async the Ready state passed to gen.send() is the union of
\* the states of the callbacks the loop called in that wait: for a request
\* of both, Readable alone, Writable alone, or both, in whatever order
\* they were called; and every wait starts with the Ready state empty.
C16_ReadyIsUnion == [][C16_Step]_vars

\* C16 witness: wait_async resumed an operation that had asked for both with
\* both, the writer callback having been called before the reader callback.
C16_Witness ==
    /\ engine = "wait_async"
    /\ pc = "returned"
    /\ sent # <<>>
    /\ sent[1].mask = WAIT_RW
    /\ sent[1].ready = READY_RW
    /\ fired = [all |-> READY_RW, last |-> READY_R]

C17_Step ==
    engine = "wait_selector" =>
        /\ (selReg' # selReg /\ selReg' # {}) =>
              (selReg = {} /\ selReg' = {<<fileno, s'>>} /\ pc' = "poll")
        /\ (selReg # {} /\ selReg' = {} /\ pc' = "send") =>
              (Poll /\ rlist' # <<<<>>>>)
        /\ (pc = "send") => selReg = {}
        /\ exc' # "KeyError"

\* C17: wait_selector registers its descriptor only when nothing is
\* registered, with the mask just requested; it unregisters it when the
\* poll has reported readiness; nothing is registered while the operation
\* is resumed; and no registration fails as a duplicate.
C17_NoDuplicateRegistration == [][C17_Step]_vars

\* C17 witness: wait_selector, after a resume at which the operation asked
\* for another mask, has the descriptor registered with the new mask.
C17_Witness ==
    /\ engine = "wait_selector"
    /\ pc = "poll"
    /\ resumes = 1
    /\ sent[1].mask # s
    /\ selReg = {<<fileno, s>>}

C18_Step ==
    engine = "wait_epoll" =>
        /\ (resumes' # resumes) =>
              LET ev == fileevs[1][1][2] IN
              /\ ev # {}
              /\ "R" \in sent'[1].ready <=> (ev \ {"EPOLLOUT"} # {})
              /\ "W" \in sent'[1].ready <=> (ev \ {"EPOLLIN"} # {})
        /\ \A k \in epReg' : "EPOLLONESHOT" \in k[2]
        /\ \A m \in DOMAIN poll_evmasks : "EPOLLONESHOT" \in poll_evmasks[m]

\* C18: in wait_epoll the Ready state passed to gen.send() has Readable
\* exactly when the reported event mask has a flag other than EPOLLOUT and
\* Writable exactly when it has a flag other than EPOLLIN; and every event
\* mask the engine arms, for R, W and RW, has EPOLLONESHOT.
C18_EpollClassification == [][C18_Step]_vars

\* C18 witness: wait_epoll got EPOLLIN with EPOLLHUP for an operation that
\* had asked for Readable, and resumed it with both.
C18_Witness ==
    /\ engine = "wait_epoll"
    /\ pc = "returned"
    /\ sent # <<>>
    /\ sent[1].mask = WAIT_R
    /\ fileevs = << << <<fileno, {"EPOLLIN", "EPOLLHUP"}>> >> >>
    /\ sent[1].ready = READY_RW

C19_Step ==
    engine = "wait_select" =>
        /\ Poll =>
              LET r == selres'[1] IN
              /\ r.rin = (IF "R" \in s THEN {fileno} ELSE {})
              /\ r.win = (IF "W" \in s THEN {fileno} ELSE {})
              /\ r.xin = {fileno}
              /\ (r.rl = {} /\ r.wl = {} /\ r.xl # {}) =>
                    (pc' = "poll" /\ resumes' = resumes /\ sent' = sent
                        /\ rv' = rv /\ exc' = NoExc)
        /\ (resumes' # resumes) => (selres[1].rl \cup selres[1].wl # {})

\* C19: each select of wait_select has the descriptor in the read group
\* exactly when the mask has Readable, in the write group exactly when it
\* has Writable, and always in the error group; a result with the
\* descriptor in the error group only leaves the engine polling, with the
\* operation not resumed and the call not ended.
C19_ErrorGroupIgnored == [][C19_Step]_vars

\* C19 witness: wait_select, after one resume, got the descriptor back in
\* the error group only and is polling again.
C19_Witness ==
    /\ engine = "wait_select"
    /\ pc = "poll"
    /\ resumes = 1
    /\ selres # <<>>
    /\ selres[1].rl = {} /\ selres[1].wl = {} /\ selres[1].xl = {fileno}

C20_Step ==
    (engine = "wait_conn_async" /\ resumes' # resumes) =>
        /\ sent'[1].ready = fired.last
        /\ Cardinality(sent'[1].ready) = 1
        /\ sent'[1].ready \subseteq sent'[1].mask

\* C20: in wait_conn_async the Ready state passed to gen.send() is the
\* state of the callback called last in that wait: one bit, of the
\* requested mask, also when both callbacks were called.
C20_ReadyIsLastCallback == [][C20_Step]_vars

\* C20 witness: wait_conn_async resumed an operation that had asked for
\* both with Writable alone, both callbacks having been called.
C20_Witness ==
    /\ engine = "wait_conn_async"
    /\ pc = "returned"
    /\ sent # <<>>
    /\ sent[1].mask = WAIT_RW
    /\ sent[1].ready = READY_W
    /\ fired.all = READY_RW

====
